---- MODULE Spec2Model ----
(***************************************************************************)
(* Room state machine of the census party game: the rooms store            *)
(* (createRoom .. completeRoom, sanitizeRoomForClient), the Supabase room   *)
(* repository (loadRoom / saveRoom), the Pusher broadcaster and the HTTP    *)
(* route handlers that wrap the store operations.                           *)
(*                                                                         *)
(* Strings that the code trims are sequences of one-character strings.     *)
(* Optional values (undefined in the code) are None = <<>> or Some(x).     *)
(* Question indexes are 0-based as in the code; Sequences are 1-based, so  *)
(* questions[i] of the code is room.questions[i + 1] here.                 *)
(***************************************************************************)
EXTENDS Integers, Sequences, FiniteSets, TLC

VARIABLES
  store,      \* room_states table: upper-case code -> Room (DOMAIN = stored codes)
  now,        \* Date.now(), in milliseconds
  nextId,     \* number of crypto.randomUUID() values drawn so far
  lastOp,     \* the request handled by the last step and how it ended
  response,   \* body of the HTTP response of the last step (None when there is none)
  broadcast,  \* payload published on the room channel by the last step (None when none)
  inflight,   \* concurrent requests: worker -> None or Some(request with loaded room)
  batch,      \* concurrent requests: the store when the batch began and the requests committed in it
  page        \* the client page: the room it shows and the results it computed (None before)

vars == <<store, now, nextId, lastOp, response, broadcast, inflight, batch, page>>

----------------------------------------------------------------------------
(* Bounds of the model *)

MaxPlayers == 2
MaxQuestions == 2
MaxTicks == 2
MaxRoundQuestions == 3
MaxTallyVotes == 3

(* Program constants *)

MinDurationSeconds == 15
MaxDurationSeconds == 300
DefaultDurationSeconds == 60
MaxCodeAttempts == 10

----------------------------------------------------------------------------
(* Values *)

None == <<>>
Some(x) == <<x>>

\* body?.playerId when the request body has no playerId (undefined)
NoId == "undefined"
\* the empty string written by sanitizeRoomForClient
EmptyId == ""
\* a UUID that is no key of the room's players
StrangerId == "stranger"
\* the string "constructor": no own key of room.players, yet room.players["constructor"]
\* is the inherited Object constructor, which is truthy
ProtoKey == "constructor"

\* the n-th value crypto.randomUUID() returns: fresh, never repeated
UUID(n) == "u" \o ToString(n)

Phases == <<"lobby", "question", "review", "complete">>

PhaseRank(p) == CHOOSE i \in 1..4 : Phases[i] = p

\* one clock tick of the model
TickMs == MinDurationSeconds * 1000

\* String.prototype.toUpperCase on the codes the model uses
ToUpperCase(code) ==
  CASE code = "abcde" -> "ABCDE"
    [] OTHER -> code

RECURSIVE TrimStart(_)
TrimStart(s) ==
  IF s # <<>> /\ Head(s) = " " THEN TrimStart(Tail(s)) ELSE s

RECURSIVE TrimEnd(_)
TrimEnd(s) ==
  IF s # <<>> /\ s[Len(s)] = " " THEN TrimEnd(SubSeq(s, 1, Len(s) - 1)) ELSE s

\* String.prototype.trim
Trim(s) == TrimEnd(TrimStart(s))

\* !value?.trim() for an optional string
IsBlank(opt) == opt = None \/ Trim(opt[1]) = <<>>

Min(a, b) == IF a < b THEN a ELSE b
Max(a, b) == IF a > b THEN a ELSE b

----------------------------------------------------------------------------
(* sanitizeRoomForClient *)

HideVotes(q) == [q EXCEPT !.votes = <<>>]

HideQuestion(q) ==
  [id |-> q.id, text |-> <<>>, authorId |-> EmptyId, createdAt |-> q.createdAt, votes |-> <<>>]

\* a filter that forgets to hide the votes during review
sanitizeKeepsReviewVotes(room) ==
  IF room.phase = "complete" \/ room.phase = "review" THEN room
  ELSE [room EXCEPT !.questions = [i \in DOMAIN room.questions |-> HideQuestion(room.questions[i])]]

sanitizeRoomForClient(room) ==
  IF room.phase = "complete" THEN room
  ELSE IF room.phase = "review"
    THEN [room EXCEPT !.questions = [i \in DOMAIN room.questions |-> HideVotes(room.questions[i])]]
    ELSE [room EXCEPT !.questions = [i \in DOMAIN room.questions |-> HideQuestion(room.questions[i])]]

----------------------------------------------------------------------------
(* Room repository (Supabase table room_states) and broadcaster (Pusher).   *)
(* fault is what the repository does during this request: "none", "load"    *)
(* (the select fails) or "save" (the upsert fails and stores nothing).      *)
(* pusher is "unconfigured", "ok" or "fails".                               *)

Faults == {"none", "load", "save"}
Pushers == {"unconfigured", "ok", "fails"}

\* a loadRoom that answers a failed select like an absent room
loadRoomSwallowsError(st, code, fault) ==
  IF fault = "load" THEN [err |-> "", room |-> None]
  ELSE IF ToUpperCase(code) \in DOMAIN st
    THEN [err |-> "", room |-> Some(st[ToUpperCase(code)])]
    ELSE [err |-> "", room |-> None]

loadRoom(st, code, fault) ==
  IF fault = "load" THEN [err |-> "Could not load room", room |-> None]
  ELSE IF ToUpperCase(code) \in DOMAIN st
    THEN [err |-> "", room |-> Some(st[ToUpperCase(code)])]
    ELSE [err |-> "", room |-> None]

saveRoom(room, fault) ==
  IF fault = "save" THEN [err |-> "Could not persist room state", state |-> None]
  ELSE [err |-> "", state |-> Some(room)]

\* the table after a successful upsert of room under its upper-case code
Upsert(st, room) ==
  [c \in DOMAIN st \cup {ToUpperCase(room.code)} |->
     IF c = ToUpperCase(room.code) THEN room ELSE st[c]]

broadcastRoom(room, pusher) ==
  IF pusher = "ok" THEN Some(room) ELSE None

\* the outcome of a store operation: err = "" on success, the saved room and
\* the published payload
Fail(msg) == [err |-> msg, saved |-> None, published |-> None]

\* a persistAndBroadcast that lets a failed trigger fail the operation, after the save
persistAndBroadcastThrows(room, fault, pusher) ==
  LET normalizedRoom == [room EXCEPT !.code = ToUpperCase(@)]
      s == saveRoom(normalizedRoom, fault)
  IN IF s.err # "" THEN Fail(s.err)
     ELSE IF pusher = "fails"
       THEN [err |-> "Pusher trigger failed", saved |-> s.state, published |-> None]
     ELSE [err |-> "", saved |-> s.state,
           published |-> broadcastRoom(sanitizeRoomForClient(s.state[1]), pusher)]

\* a persistAndBroadcast that publishes the room before it saves it
persistAndBroadcastBeforeSave(room, fault, pusher) ==
  LET normalizedRoom == [room EXCEPT !.code = ToUpperCase(@)]
      published == broadcastRoom(sanitizeRoomForClient(normalizedRoom), pusher)
      s == saveRoom(normalizedRoom, fault)
  IN IF s.err # "" THEN [err |-> s.err, saved |-> None, published |-> published]
     ELSE [err |-> "", saved |-> s.state, published |-> published]

persistAndBroadcast(room, fault, pusher) ==
  LET normalizedRoom == [room EXCEPT !.code = ToUpperCase(@)]
      s == saveRoom(normalizedRoom, fault)
  IN IF s.err # "" THEN Fail(s.err)
     ELSE [err |-> "", saved |-> s.state,
           published |-> broadcastRoom(sanitizeRoomForClient(s.state[1]), pusher)]

\* room.players[playerId] is truthy
assertPlayer(room, playerId) ==
  playerId \in DOMAIN room.players \/ playerId = ProtoKey

\* a host check that lets every member of the room pass
assertHostAnyMember(room, playerId) == playerId \in DOMAIN room.players

assertHost(room, playerId) == room.hostId = playerId

----------------------------------------------------------------------------
(* Store operations. l is the result of the operation's loadRoom, t the     *)
(* value of Date.now(), n the number of UUIDs drawn before the operation.   *)

\* a numeric input: [kind |-> "finite", num |-> a, den |-> b] is a / b
IsFinite(d) == d.kind = "finite"

Floor(d) == d.num \div d.den

\* a clamp that rounds a fraction up
ClampDurationCeil(d) ==
  IF IsFinite(d)
    THEN Max(MinDurationSeconds,
             Min(MaxDurationSeconds, (d.num + d.den - 1) \div d.den))
    ELSE DefaultDurationSeconds

ClampDuration(d) ==
  IF IsFinite(d)
    THEN Max(MinDurationSeconds, Min(MaxDurationSeconds, Floor(d)))
    ELSE DefaultDurationSeconds

\* a generateRoomCode that makes one attempt more
RECURSIVE generateRoomCodeEleven(_, _, _, _)
generateRoomCodeEleven(st, draws, i, fault) ==
  IF i > MaxCodeAttempts + 1
    THEN [err |-> "Unable to generate a unique room code", code |-> ""]
  ELSE LET existing == loadRoom(st, draws[i], fault) IN
    IF existing.err # "" THEN [err |-> existing.err, code |-> ""]
    ELSE IF existing.room = None THEN [err |-> "", code |-> draws[i]]
    ELSE generateRoomCodeEleven(st, draws, i + 1, fault)

\* draws[i] is the i-th random candidate code
RECURSIVE generateRoomCode(_, _, _, _)
generateRoomCode(st, draws, i, fault) ==
  IF i > MaxCodeAttempts THEN [err |-> "Unable to generate a unique room code", code |-> ""]
  ELSE LET existing == loadRoom(st, draws[i], fault) IN
    IF existing.err # "" THEN [err |-> existing.err, code |-> ""]
    ELSE IF existing.room = None THEN [err |-> "", code |-> draws[i]]
    ELSE generateRoomCode(st, draws, i + 1, fault)

\* a player record that is always marked as host
NewPlayerAlwaysHost(id, name, t, host) ==
  [id |-> id, name |-> Trim(name), joinedAt |-> t, isHost |-> TRUE,
   currentQuestionIndex |-> 0, hasFinishedVoting |-> FALSE]

NewPlayer(id, name, t, host) ==
  [id |-> id, name |-> Trim(name), joinedAt |-> t, isHost |-> host,
   currentQuestionIndex |-> 0, hasFinishedVoting |-> FALSE]

\* g is the result of the operation's generateRoomCode; joinedAt and createdAt are
\* the two readings of Date.now(), in the order the operation takes them
createRoomAt(g, hostName, questionDurationSeconds, joinedAt, createdAt, n, fault, pusher) ==
  IF IsBlank(hostName) THEN Fail("Host name is required")
  ELSE LET duration == ClampDuration(questionDurationSeconds)
           hostId == UUID(n + 1)
       IN IF g.err # "" THEN Fail(g.err)
          ELSE persistAndBroadcast(
                 [code |-> g.code, hostId |-> hostId, phase |-> "lobby",
                  questionDurationSeconds |-> duration, questionDeadline |-> None,
                  createdAt |-> createdAt, currentQuestionIndex |-> 0,
                  players |-> [p \in {hostId} |->
                                 NewPlayer(hostId, hostName[1], joinedAt, TRUE)],
                  questions |-> <<>>],
                 fault, pusher)

\* createRoom while the clock stands at t
createRoom(g, hostName, questionDurationSeconds, t, n, fault, pusher) ==
  createRoomAt(g, hostName, questionDurationSeconds, t, t, n, fault, pusher)

\* a joinRoom that takes the id drawn last instead of a fresh one
joinRoomReusesId(l, name, t, n, fault, pusher) ==
  IF IsBlank(name) THEN Fail("Name is required")
  ELSE IF l.err # "" THEN Fail(l.err)
  ELSE IF l.room = None THEN Fail("Room not found")
  ELSE LET room == l.room[1]
           playerId == UUID(n)
       IN persistAndBroadcast(
            [room EXCEPT !.players =
               [p \in DOMAIN room.players \cup {playerId} |->
                  IF p = playerId THEN NewPlayer(playerId, name[1], t, FALSE)
                  ELSE room.players[p]]],
            fault, pusher)

\* a joinRoom that keeps the new player only
joinRoomReplacesPlayers(l, name, t, n, fault, pusher) ==
  IF IsBlank(name) THEN Fail("Name is required")
  ELSE IF l.err # "" THEN Fail(l.err)
  ELSE IF l.room = None THEN Fail("Room not found")
  ELSE LET room == l.room[1]
           playerId == UUID(n + 1)
       IN persistAndBroadcast(
            [room EXCEPT !.players =
               [p \in {playerId} |-> NewPlayer(playerId, name[1], t, FALSE)]],
            fault, pusher)

joinRoom(l, name, t, n, fault, pusher) ==
  IF IsBlank(name) THEN Fail("Name is required")
  ELSE IF l.err # "" THEN Fail(l.err)
  ELSE IF l.room = None THEN Fail("Room not found")
  ELSE LET room == l.room[1]
           playerId == UUID(n + 1)
       IN persistAndBroadcast(
            [room EXCEPT !.players =
               [p \in DOMAIN room.players \cup {playerId} |->
                  IF p = playerId THEN NewPlayer(playerId, name[1], t, FALSE)
                  ELSE room.players[p]]],
            fault, pusher)

getRoom(l) ==
  IF l.err # "" THEN Fail(l.err)
  ELSE IF l.room = None THEN Fail("Room not found")
  ELSE [err |-> "", saved |-> l.room, published |-> None]

startQuestionPhase(l, hostId, t, fault, pusher) ==
  IF l.err # "" THEN Fail(l.err)
  ELSE IF l.room = None THEN Fail("Room not found")
  ELSE LET room == l.room[1] IN
    IF ~assertHost(room, hostId) THEN Fail("Only the host can perform this action")
    ELSE persistAndBroadcast(
           [room EXCEPT !.phase = "question",
                        !.questionDeadline = Some(t + room.questionDurationSeconds * 1000),
                        !.currentQuestionIndex = 0],
           fault, pusher)

\* a submitQuestion that appends and saves before it looks at the text
submitQuestionSavesFirst(l, playerId, text, t, n, fault, pusher) ==
  IF l.err # "" THEN Fail(l.err)
  ELSE IF l.room = None THEN Fail("Room not found")
  ELSE LET room == l.room[1] IN
    IF ~assertPlayer(room, playerId) THEN Fail("Player not in this room")
    ELSE IF room.phase # "question" THEN Fail("Room is not accepting questions right now")
    ELSE IF room.questionDeadline # None /\ t > room.questionDeadline[1]
      THEN Fail("Question window has closed")
    ELSE LET r == persistAndBroadcast(
                    [room EXCEPT !.questions =
                       Append(@, [id |-> UUID(n + 1),
                                  text |-> IF text = None THEN <<>> ELSE Trim(text[1]),
                                  authorId |-> playerId, createdAt |-> t, votes |-> <<>>])],
                    fault, pusher)
         IN IF IsBlank(text) THEN [r EXCEPT !.err = "Question cannot be empty"] ELSE r

\* a submitQuestion that puts the new question first
submitQuestionPrepends(l, playerId, text, t, n, fault, pusher) ==
  IF l.err # "" THEN Fail(l.err)
  ELSE IF l.room = None THEN Fail("Room not found")
  ELSE LET room == l.room[1] IN
    IF ~assertPlayer(room, playerId) THEN Fail("Player not in this room")
    ELSE IF room.phase # "question" THEN Fail("Room is not accepting questions right now")
    ELSE IF room.questionDeadline # None /\ t > room.questionDeadline[1]
      THEN Fail("Question window has closed")
    ELSE IF IsBlank(text) THEN Fail("Question cannot be empty")
    ELSE persistAndBroadcast(
           [room EXCEPT !.questions =
              <<[id |-> UUID(n + 1), text |-> Trim(text[1]), authorId |-> playerId,
                 createdAt |-> t, votes |-> <<>>]>> \o @],
           fault, pusher)

\* checkedAt is the reading of Date.now() the deadline is compared with and
\* createdAt the later reading the question is stamped with
submitQuestionAt(l, playerId, text, checkedAt, createdAt, n, fault, pusher) ==
  IF l.err # "" THEN Fail(l.err)
  ELSE IF l.room = None THEN Fail("Room not found")
  ELSE LET room == l.room[1] IN
    IF ~assertPlayer(room, playerId) THEN Fail("Player not in this room")
    ELSE IF room.phase # "question" THEN Fail("Room is not accepting questions right now")
    ELSE IF room.questionDeadline # None /\ checkedAt > room.questionDeadline[1]
      THEN Fail("Question window has closed")
    ELSE IF IsBlank(text) THEN Fail("Question cannot be empty")
    ELSE persistAndBroadcast(
           [room EXCEPT !.questions =
              Append(@, [id |-> UUID(n + 1), text |-> Trim(text[1]), authorId |-> playerId,
                         createdAt |-> createdAt, votes |-> <<>>])],
           fault, pusher)

\* submitQuestion while the clock stands at t
submitQuestion(l, playerId, text, t, n, fault, pusher) ==
  submitQuestionAt(l, playerId, text, t, t, n, fault, pusher)

\* a startReviewPhase that resets the players' positions and leaves their
\* hasFinishedVoting as it is
startReviewPhaseKeepsFinished(l, hostId, fault, pusher) ==
  IF l.err # "" THEN Fail(l.err)
  ELSE IF l.room = None THEN Fail("Room not found")
  ELSE LET room == l.room[1] IN
    IF ~assertHost(room, hostId) THEN Fail("Only the host can perform this action")
    ELSE IF Len(room.questions) = 0 THEN Fail("Add at least one question before reviewing")
    ELSE persistAndBroadcast(
           [room EXCEPT !.phase = "review",
                        !.currentQuestionIndex = 0,
                        !.players = [p \in DOMAIN room.players |->
                                       [room.players[p] EXCEPT !.currentQuestionIndex = 0]]],
           fault, pusher)

startReviewPhase(l, hostId, fault, pusher) ==
  IF l.err # "" THEN Fail(l.err)
  ELSE IF l.room = None THEN Fail("Room not found")
  ELSE LET room == l.room[1] IN
    IF ~assertHost(room, hostId) THEN Fail("Only the host can perform this action")
    ELSE IF Len(room.questions) = 0 THEN Fail("Add at least one question before reviewing")
    ELSE persistAndBroadcast(
           [room EXCEPT !.phase = "review",
                        !.currentQuestionIndex = 0,
                        !.players = [p \in DOMAIN room.players |->
                                       [room.players[p] EXCEPT !.currentQuestionIndex = 0,
                                                               !.hasFinishedVoting = FALSE]]],
           fault, pusher)

\* votes[voter] = target on a mapping kept in insertion order: a present key keeps
\* its place, a new key goes last
\* a vote write that adds an entry even when the voter has one
SetVoteAppends(votes, voter, target) ==
  Append(votes, [voter |-> voter, target |-> target])

SetVote(votes, voter, target) ==
  IF \E i \in DOMAIN votes : votes[i].voter = voter
    THEN [i \in DOMAIN votes |->
            IF votes[i].voter = voter THEN [voter |-> voter, target |-> target] ELSE votes[i]]
    ELSE Append(votes, [voter |-> voter, target |-> target])

\* a completion test that is content with one finished player
SomeFinished(players) == \E p \in DOMAIN players : players[p].hasFinishedVoting

\* Object.values(room.players).every((p) => p.hasFinishedVoting)
AllFinished(players) == \A p \in DOMAIN players : players[p].hasFinishedVoting

\* a progress update that takes a player who votes on an earlier question back to
\* unfinished
AdvancePlayerRewinds(players, playerId, questionIndex, nQuestions) ==
  IF playerId \notin DOMAIN players THEN players
  ELSE IF questionIndex < nQuestions - 1
    THEN [players EXCEPT ![playerId].currentQuestionIndex = questionIndex + 1,
                         ![playerId].hasFinishedVoting = FALSE]
    ELSE [players EXCEPT ![playerId].hasFinishedVoting = TRUE]

\* a progress update that moves every player of the room along with the voter
AdvancePlayerAll(players, playerId, questionIndex, nQuestions) ==
  IF playerId \notin DOMAIN players THEN players
  ELSE IF questionIndex < nQuestions - 1
    THEN [p \in DOMAIN players |->
            [players[p] EXCEPT !.currentQuestionIndex = questionIndex + 1]]
    ELSE [players EXCEPT ![playerId].hasFinishedVoting = TRUE]

\* a progress update that moves the voter past the last question too
AdvancePlayerOverruns(players, playerId, questionIndex, nQuestions) ==
  IF playerId \notin DOMAIN players THEN players
  ELSE IF questionIndex < nQuestions - 1
    THEN [players EXCEPT ![playerId].currentQuestionIndex = questionIndex + 1]
    ELSE [players EXCEPT ![playerId].currentQuestionIndex = questionIndex + 1,
                         ![playerId].hasFinishedVoting = TRUE]

\* a progress update that never marks the voter as finished
AdvancePlayerStays(players, playerId, questionIndex, nQuestions) ==
  IF playerId \notin DOMAIN players THEN players
  ELSE IF questionIndex < nQuestions - 1
    THEN [players EXCEPT ![playerId].currentQuestionIndex = questionIndex + 1]
    ELSE players

\* the player's progress after voting on questionIndex; a playerId that is only an
\* inherited key is the Object constructor, no entry of room.players
AdvancePlayer(players, playerId, questionIndex, nQuestions) ==
  IF playerId \notin DOMAIN players THEN players
  ELSE IF questionIndex < nQuestions - 1
    THEN [players EXCEPT ![playerId].currentQuestionIndex = questionIndex + 1]
    ELSE [players EXCEPT ![playerId].hasFinishedVoting = TRUE]

\* a submitVote that completes the room and leaves its questionDeadline in place
submitVoteKeepsDeadline(l, playerId, targetPlayerId, questionIndex, fault, pusher) ==
  IF l.err # "" THEN Fail(l.err)
  ELSE IF l.room = None THEN Fail("Room not found")
  ELSE LET room == l.room[1] IN
    IF ~assertPlayer(room, playerId) THEN Fail("Player not in this room")
    ELSE IF ~assertPlayer(room, targetPlayerId) THEN Fail("Player not in this room")
    ELSE IF room.phase # "review" THEN Fail("Voting is not active")
    ELSE IF ~(questionIndex >= 0 /\ questionIndex < Len(room.questions))
      THEN Fail("Invalid question")
    ELSE LET voted == [room EXCEPT
                         !.questions[questionIndex + 1].votes =
                            SetVote(@, playerId, targetPlayerId),
                         !.players =
                            AdvancePlayer(@, playerId, questionIndex, Len(room.questions))]
         IN persistAndBroadcast(
              IF AllFinished(voted.players) THEN [voted EXCEPT !.phase = "complete"] ELSE voted,
              fault, pusher)

submitVote(l, playerId, targetPlayerId, questionIndex, fault, pusher) ==
  IF l.err # "" THEN Fail(l.err)
  ELSE IF l.room = None THEN Fail("Room not found")
  ELSE LET room == l.room[1] IN
    IF ~assertPlayer(room, playerId) THEN Fail("Player not in this room")
    ELSE IF ~assertPlayer(room, targetPlayerId) THEN Fail("Player not in this room")
    ELSE IF room.phase # "review" THEN Fail("Voting is not active")
    ELSE IF ~(questionIndex >= 0 /\ questionIndex < Len(room.questions))
      THEN Fail("Invalid question")
    ELSE LET voted == [room EXCEPT
                         !.questions[questionIndex + 1].votes =
                            SetVote(@, playerId, targetPlayerId),
                         !.players =
                            AdvancePlayer(@, playerId, questionIndex, Len(room.questions))]
             allFinished == AllFinished(voted.players)
         IN persistAndBroadcast(
              IF allFinished
                THEN [voted EXCEPT !.phase = "complete", !.questionDeadline = None]
                ELSE voted,
              fault, pusher)

\* a goToNextQuestion without its phase guard
goToNextQuestionAnyPhase(l, hostId, fault, pusher) ==
  IF l.err # "" THEN Fail(l.err)
  ELSE IF l.room = None THEN Fail("Room not found")
  ELSE LET room == l.room[1] IN
    IF ~assertHost(room, hostId) THEN Fail("Only the host can perform this action")
    ELSE persistAndBroadcast(
           [room EXCEPT !.phase = "complete", !.questionDeadline = None], fault, pusher)

goToNextQuestion(l, hostId, fault, pusher) ==
  IF l.err # "" THEN Fail(l.err)
  ELSE IF l.room = None THEN Fail("Room not found")
  ELSE LET room == l.room[1] IN
    IF ~assertHost(room, hostId) THEN Fail("Only the host can perform this action")
    ELSE IF room.phase # "review" THEN Fail("Review phase has not started")
    ELSE persistAndBroadcast(
           [room EXCEPT !.phase = "complete", !.questionDeadline = None], fault, pusher)

completeRoom(l, hostId, fault, pusher) ==
  IF l.err # "" THEN Fail(l.err)
  ELSE IF l.room = None THEN Fail("Room not found")
  ELSE LET room == l.room[1] IN
    IF ~assertHost(room, hostId) THEN Fail("Only the host can perform this action")
    ELSE persistAndBroadcast(
           [room EXCEPT !.phase = "complete", !.questionDeadline = None], fault, pusher)

----------------------------------------------------------------------------
(* Requests and route handlers *)

RoomCodes == {"ABCDE"}
Draws == [1..MaxCodeAttempts -> RoomCodes]

\* the circumstances of a request: the code in its URL, what the repository does
\* and what the broadcaster does
Env(code, fault, pusher) == [code |-> code, fault |-> fault, pusher |-> pusher]
Calm == {Env("abcde", "none", "ok")}
Rough == {Env("ABCDE", "none", "unconfigured"), Env("abcde", "none", "fails"),
          Env("ABCDE", "load", "ok"), Env("abcde", "save", "ok"), Env("QQQQQ", "none", "ok")}
Envs == Calm \cup Rough

GoodName == Some(<<" ", "A", "l", " ">>)
NameInputs == {None, Some(<<" ">>), Some(<<"A", "l">>), GoodName}
GoodText == Some(<<" ", "Q", "?">>)
TextInputs == {None, Some(<<" ", " ">>), Some(<<"Q", "?">>), GoodText}
DurationInputs == {[kind |-> "finite", num |-> 29, den |-> 2],
                   [kind |-> "finite", num |-> 15, den |-> 1]}
IndexInputs == {None} \cup {Some(i) : i \in (-1)..MaxQuestions}
GoodIndexes == {Some(i) : i \in 0..(MaxQuestions - 1)}

Members(st) == UNION {DOMAIN st[c].players : c \in DOMAIN st}
ActorInputs(st) == Members(st) \cup {NoId, StrangerId}
Hosts(st) == {st[c].hostId : c \in DOMAIN st}
TargetInputs(st) == Hosts(st) \cup {StrangerId}

\* The requests the model sends. With a working repository and broadcaster every
\* actor is tried; the other circumstances are tried with the room's members.
ActorRequests(st) == (Calm \X ActorInputs(st)) \cup (Rough \X Members(st))

CreateInputs ==
  (Calm \X NameInputs \X DurationInputs) \cup (Rough \X {GoodName} \X DurationInputs)

JoinInputs == (Calm \X NameInputs) \cup (Rough \X {GoodName})

QuestionInputs(st) ==
  (Calm \X ActorInputs(st) \X {GoodText})
    \cup (Calm \X Members(st) \X TextInputs)
    \cup (Rough \X Members(st) \X {GoodText})

\* the vote requests: members voting for the host with every index, every actor and
\* every target with the indexes of questions, and the other circumstances
VoteInputs(st) ==
  (Calm \X Members(st) \X Hosts(st) \X IndexInputs)
    \cup (Calm \X ActorInputs(st) \X Hosts(st) \X GoodIndexes)
    \cup (Calm \X Members(st) \X TargetInputs(st) \X GoodIndexes)
    \cup (Rough \X Members(st) \X Hosts(st) \X GoodIndexes)

HostVoteInputs(st) ==
  (Calm \X Hosts(st) \X Hosts(st) \X IndexInputs)
    \cup (Calm \X {NoId, StrangerId} \X Hosts(st) \X GoodIndexes)
    \cup (Calm \X Hosts(st) \X {StrangerId} \X GoodIndexes)
    \cup (Rough \X Hosts(st) \X Hosts(st) \X GoodIndexes)

\* what a request body carries besides the actor's playerId
Input(target, index, text) ==
  [target |-> target, index |-> index, text |-> text, duration |-> None, draws |-> <<>>]
NoInput == Input(NoId, None, None)

\* the arguments of createRoom and the candidate codes its generateRoomCode drew
CreateInput(hostName, questionDurationSeconds, draws) ==
  [target |-> NoId, index |-> None, text |-> hostName,
   duration |-> Some(questionDurationSeconds), draws |-> draws]

\* requests whose playerId or targetPlayerId is the name of a property every object
\* inherits, sent beside the host's own requests
KeyQuestionInputs(st) == Calm \X (Hosts(st) \cup {ProtoKey}) \X {GoodText}

KeyVoteInputs(st) ==
  Calm \X (Hosts(st) \cup {ProtoKey}) \X (Hosts(st) \cup {ProtoKey}) \X GoodIndexes

\* the votes of the members of a room for one another
PeerVoteInputs(st) == Calm \X Members(st) \X Members(st) \X GoodIndexes

NoOp ==
  [op |-> "none", code |-> "", actor |-> NoId, input |-> NoInput, fault |-> "none",
   pusher |-> "ok", err |-> ""]

\* NextResponse.json(...)
Ok(room, playerId) == [status |-> 200, message |-> "", room |-> Some(room), playerId |-> playerId]
Error(status, message) == [status |-> status, message |-> message, room |-> None, playerId |-> NoId]

\* the routes that answer with the store's room as it is
RawBody(res) ==
  IF res.err = "" THEN Some(Ok(res.saved[1], NoId)) ELSE Some(Error(400, res.err))

\* the routes that answer with sanitizeRoomForClient(room)
SanitizedBody(res, playerId, status) ==
  IF res.err = "" THEN Some(Ok(sanitizeRoomForClient(res.saved[1]), playerId))
  ELSE Some(Error(status, res.err))

\* the body each route answers with; the route of createRoom is not part of the
\* sources and has no response here
RouteBody(op, res, n) ==
  CASE op = "createRoom" -> None
    [] op = "joinRoom" -> SanitizedBody(res, IF res.err = "" THEN UUID(n + 1) ELSE NoId, 400)
    [] op = "getRoom" -> SanitizedBody(res, NoId, 404)
    [] op = "submitVote" -> SanitizedBody(res, NoId, 400)
    [] OTHER -> RawBody(res)

\* no request is being handled: the last response was sent and no worker holds a
\* loaded room
Idle ==
  /\ lastOp = NoOp
  /\ \A w \in DOMAIN inflight : inflight[w] = None

\* what a request leaves behind: the upsert when it succeeded, the response and
\* the broadcast; drew is the number of UUIDs a successful request draws
\* t is the clock when the request is done
ServeAt(op, e, code, actor, input, res, drew, t) ==
  /\ store' = IF res.saved # None THEN Upsert(store, res.saved[1]) ELSE store
  /\ nextId' = IF res.saved # None THEN nextId + drew ELSE nextId
  /\ lastOp' = [op |-> op, code |-> ToUpperCase(code), actor |-> actor, input |-> input,
                fault |-> e.fault, pusher |-> e.pusher,
                err |-> res.err]
  /\ response' = RouteBody(op, res, nextId)
  /\ broadcast' = res.published
  /\ now' = t
  /\ UNCHANGED <<inflight, batch, page>>

\* a request during which the clock stands
Serve(op, e, code, actor, input, res, drew) ==
  ServeAt(op, e, code, actor, input, res, drew, now)

RoomFull(code) ==
  /\ ToUpperCase(code) \in DOMAIN store
  /\ Cardinality(DOMAIN store[ToUpperCase(code)].players) >= MaxPlayers

QuestionsFull(code) ==
  /\ ToUpperCase(code) \in DOMAIN store
  /\ Len(store[ToUpperCase(code)].questions) >= MaxQuestions

CreateRoomWith(inputs) ==
  /\ Idle
  /\ \E draws \in Draws, c \in inputs :
       LET e == c[1]
           res == createRoom(generateRoomCode(store, draws, 1, e.fault), c[2], c[3], now,
                             nextId, e.fault, e.pusher) IN
       Serve("createRoom", e, IF res.saved # None THEN res.saved[1].code ELSE "", NoId,
             CreateInput(c[2], c[3], draws), res, 1)

CreateRoom == CreateRoomWith(CreateInputs)

JoinWith(inputs) ==
  /\ Idle
  /\ \E j \in inputs :
       /\ ~RoomFull(j[1].code)
       /\ LET e == j[1]
              res == joinRoom(loadRoom(store, e.code, e.fault), j[2], now, nextId,
                              e.fault, e.pusher) IN
          Serve("joinRoom", e, e.code, NoId, Input(NoId, None, j[2]), res, 1)

Join == JoinWith(JoinInputs)

GetRoom ==
  /\ Idle
  /\ \E e \in Envs :
       LET res == getRoom(loadRoom(store, e.code, e.fault)) IN
       /\ lastOp' = [op |-> "getRoom", code |-> ToUpperCase(e.code), actor |-> NoId,
                     input |-> NoInput, fault |-> e.fault, pusher |-> e.pusher,
                     err |-> res.err]
       /\ response' = RouteBody("getRoom", res, nextId)
       /\ broadcast' = None
       /\ UNCHANGED <<store, now, nextId, inflight, batch, page>>

StartQuestionWith(requests) ==
  /\ Idle
  /\ \E r \in requests :
       LET e == r[1]
           playerId == r[2]
           res == startQuestionPhase(loadRoom(store, e.code, e.fault), playerId, now,
                                     e.fault, e.pusher) IN
       Serve("startQuestionPhase", e, e.code, playerId, NoInput, res, 0)

StartQuestion == StartQuestionWith(ActorRequests(store))

SubmitQuestionWith(inputs) ==
  /\ Idle
  /\ \E q \in inputs :
       /\ ~QuestionsFull(q[1].code)
       /\ LET e == q[1]
              res == submitQuestion(loadRoom(store, e.code, e.fault), q[2], q[3], now,
                                    nextId, e.fault, e.pusher) IN
          Serve("submitQuestion", e, e.code, q[2], Input(NoId, None, q[3]), res, 1)

SubmitQuestion == SubmitQuestionWith(QuestionInputs(store))

KeySubmitQuestion == SubmitQuestionWith(KeyQuestionInputs(store))

StartReviewWith(requests) ==
  /\ Idle
  /\ \E r \in requests :
       LET e == r[1]
           playerId == r[2]
           res == startReviewPhase(loadRoom(store, e.code, e.fault), playerId,
                                   e.fault, e.pusher) IN
       Serve("startReviewPhase", e, e.code, playerId, NoInput, res, 0)

StartReview == StartReviewWith(ActorRequests(store))

\* the vote route rejects a questionIndex that is no number before it calls the store
voteRoute(l, playerId, targetPlayerId, questionIndex, fault, pusher) ==
  IF questionIndex = None THEN Fail("questionIndex is required")
  ELSE submitVote(l, playerId, targetPlayerId, questionIndex[1], fault, pusher)

VoteWith(inputs) ==
  /\ Idle
  /\ \E v \in inputs :
       LET e == v[1]
           res == voteRoute(loadRoom(store, e.code, e.fault), v[2], v[3], v[4],
                            e.fault, e.pusher) IN
       Serve("submitVote", e, e.code, v[2], Input(v[3], v[4], None), res, 0)

Vote == VoteWith(VoteInputs(store))

\* the host alone votes; the other requests of VoteInputs are those that fail
HostVote == VoteWith(HostVoteInputs(store))

KeyVote == VoteWith(KeyVoteInputs(store))

HostSubmitQuestion == SubmitQuestionWith(Calm \X Hosts(store) \X {GoodText})

PeerVote == VoteWith(PeerVoteInputs(store))

NextQuestion ==
  /\ Idle
  /\ \E r \in ActorRequests(store) :
       LET e == r[1]
           playerId == r[2]
           res == goToNextQuestion(loadRoom(store, e.code, e.fault), playerId,
                                   e.fault, e.pusher) IN
       Serve("goToNextQuestion", e, e.code, playerId, NoInput, res, 0)

Complete ==
  /\ Idle
  /\ \E r \in ActorRequests(store) :
       LET e == r[1]
           playerId == r[2]
           res == completeRoom(loadRoom(store, e.code, e.fault), playerId,
                               e.fault, e.pusher) IN
       Serve("completeRoom", e, e.code, playerId, NoInput, res, 0)

\* the response is sent and the handler returns
Respond ==
  /\ lastOp # NoOp
  /\ lastOp' = NoOp
  /\ response' = None
  /\ broadcast' = None
  /\ UNCHANGED <<store, now, nextId, inflight, batch, page>>

\* the clock advances; time is counted from the creation of the first room
Tick ==
  /\ Idle
  /\ store # <<>>
  /\ now < MaxTicks * TickMs
  /\ now' = now + TickMs
  /\ UNCHANGED <<store, nextId, lastOp, response, broadcast, inflight, batch, page>>

Workers == {"w1", "w2"}

Init ==
  /\ store = <<>>
  /\ now = 0
  /\ nextId = 0
  /\ lastOp = NoOp
  /\ response = None
  /\ broadcast = None
  /\ inflight = [w \in Workers |-> None]
  /\ batch = [base |-> <<>>, done |-> <<>>, served |-> 0]
  /\ page = None

\* Requests handled one after the other, all within the first millisecond: no
\* operation but submitQuestion reads the clock to decide anything, and the clock
\* can only make submitQuestion fail.
Next ==
  \/ CreateRoom
  \/ Join
  \/ GetRoom
  \/ StartQuestion
  \/ SubmitQuestion
  \/ StartReview
  \/ Vote
  \/ NextQuestion
  \/ Complete
  \/ Respond

Spec == Init /\ [][Next]_vars

----------------------------------------------------------------------------
(* Concurrent requests. Every store operation awaits loadRoom, then runs    *)
(* without suspending up to its saveRoom call: a worker loads (Load), and    *)
(* later validates, mutates, saves, broadcasts and answers (Commit). Nothing *)
(* orders the Load and Commit steps of two requests.                         *)

MaxRequests == 6

Request(op, code, actor, target, index, text) ==
  [op |-> op, code |-> code, actor |-> actor, target |-> target, index |-> index, text |-> text]

\* the requests sent concurrently: the ones a room's members send when the
\* repository and the broadcaster work
ConcRequests(st) ==
  {Request("createRoom", "", NoId, NoId, 0, GoodName)}
    \cup {Request("joinRoom", c, NoId, NoId, 0, GoodName) : c \in {c \in DOMAIN st : ~RoomFull(c)}}
    \cup {Request(op, c, st[c].hostId, NoId, 0, None) :
            op \in {"startQuestionPhase", "startReviewPhase", "goToNextQuestion", "completeRoom"},
            c \in DOMAIN st}
    \cup UNION {{Request("submitQuestion", c, p, NoId, 0, GoodText) : p \in DOMAIN st[c].players} :
                  c \in {c \in DOMAIN st : ~QuestionsFull(c)}}
    \cup UNION {{Request("submitVote", c, p, st[c].hostId, i, None) :
                   p \in DOMAIN st[c].players, i \in 0..(MaxQuestions - 1)} : c \in DOMAIN st}

\* the store operation of a request, on the room (or the free code) it loaded
Exec(req, l, g, t, n) ==
  CASE req.op = "createRoom" ->
         createRoom(g, req.text, CHOOSE d \in DurationInputs : d.den = 1, t, n, "none", "ok")
    [] req.op = "joinRoom" -> joinRoom(l, req.text, t, n, "none", "ok")
    [] req.op = "startQuestionPhase" -> startQuestionPhase(l, req.actor, t, "none", "ok")
    [] req.op = "submitQuestion" -> submitQuestion(l, req.actor, req.text, t, n, "none", "ok")
    [] req.op = "startReviewPhase" -> startReviewPhase(l, req.actor, "none", "ok")
    [] req.op = "submitVote" ->
         voteRoute(l, req.actor, req.target, Some(req.index), "none", "ok")
    [] req.op = "goToNextQuestion" -> goToNextQuestion(l, req.actor, "none", "ok")
    [] req.op = "completeRoom" -> completeRoom(l, req.actor, "none", "ok")

Loaded(st, req, draws) ==
  [req |-> req,
   l |-> loadRoom(st, req.code, "none"),
   g |-> IF req.op = "createRoom" THEN generateRoomCode(st, draws, 1, "none")
         ELSE [err |-> "", code |-> ""]]

Load(w) ==
  /\ lastOp = NoOp
  /\ inflight[w] = None
  /\ batch.served < MaxRequests
  /\ \A i \in DOMAIN batch.done : Idle \/ batch.done[i].w # w
  /\ \E req \in ConcRequests(store), draws \in Draws :
       inflight' = [inflight EXCEPT ![w] = Some(Loaded(store, req, draws))]
  /\ batch' = IF Idle THEN [base |-> store, done |-> <<>>, served |-> batch.served + 1]
              ELSE [batch EXCEPT !.served = @ + 1]
  /\ UNCHANGED <<store, now, nextId, lastOp, response, broadcast, page>>

Commit(w) ==
  /\ inflight[w] # None
  /\ LET f == inflight[w][1]
         res == Exec(f.req, f.l, f.g, now, nextId)
     IN /\ store' = IF res.saved # None THEN Upsert(store, res.saved[1]) ELSE store
        /\ nextId' = IF res.saved # None THEN nextId + 1 ELSE nextId
        /\ response' = RouteBody(f.req.op, res, nextId)
        /\ broadcast' = res.published
        /\ batch' = [batch EXCEPT !.done = Append(@, [w |-> w, req |-> f.req, t |-> now, n |-> nextId])]
  /\ inflight' = [inflight EXCEPT ![w] = None]
  /\ UNCHANGED <<now, lastOp, page>>

ConcNext == \E w \in Workers : Load(w) \/ Commit(w)

ConcSpec == Init /\ [][ConcNext]_vars

\* the table after the committed requests e[1], e[2], ... are handled one after
\* the other on the table st, each with the clock value and the UUID it used
RECURSIVE Replay(_, _)
Replay(st, es) ==
  IF es = <<>> THEN st
  ELSE LET e == Head(es)
           f == Loaded(st, e.req, [i \in 1..MaxCodeAttempts |-> CHOOSE c \in RoomCodes : TRUE])
           res == Exec(e.req, f.l, f.g, e.t, e.n)
       IN Replay(IF res.saved # None THEN Upsert(st, res.saved[1]) ELSE st, Tail(es))

Reverse(es) == [i \in DOMAIN es |-> es[Len(es) + 1 - i]]

\* Requests handled one after the other while the clock advances; one voter
ClockNext ==
  \/ CreateRoom
  \/ Join
  \/ GetRoom
  \/ StartQuestion
  \/ SubmitQuestion
  \/ StartReview
  \/ HostVote
  \/ NextQuestion
  \/ Complete
  \/ Respond
  \/ Tick

ClockSpec == Init /\ [][ClockNext]_vars

\* Requests to a room of one player, handled one after the other, among them
\* requests that name an inherited property as a player
KeyNext ==
  \/ CreateRoom
  \/ GetRoom
  \/ StartQuestion
  \/ KeySubmitQuestion
  \/ StartReview
  \/ KeyVote
  \/ NextQuestion
  \/ Complete
  \/ Respond

KeySpec == Init /\ [][KeyNext]_vars

\* Requests handled one after the other: the host writes the questions and every
\* member votes for every member
PeerNext ==
  \/ CreateRoom
  \/ Join
  \/ StartQuestion
  \/ HostSubmitQuestion
  \/ StartReview
  \/ PeerVote
  \/ Respond

PeerSpec == Init /\ [][PeerNext]_vars

\* the host adds a question to a room that holds fewer than MaxRoundQuestions
RoundSubmitQuestion ==
  /\ Idle
  /\ \E q \in Calm \X Hosts(store) \X {GoodText} :
       /\ ToUpperCase(q[1].code) \in DOMAIN store
            => Len(store[ToUpperCase(q[1].code)].questions) < MaxRoundQuestions
       /\ LET e == q[1]
              res == submitQuestion(loadRoom(store, e.code, e.fault), q[2], q[3], now,
                                    nextId, e.fault, e.pusher) IN
          Serve("submitQuestion", e, e.code, q[2], Input(NoId, None, q[3]), res, 1)

\* the host votes for the host on every question of a round, in every order
RoundVote ==
  VoteWith(Calm \X Hosts(store) \X Hosts(store)
             \X {Some(i) : i \in 0..(MaxRoundQuestions - 1)})

\* Requests of the host of a room of one player, handled one after the other, on
\* rounds of up to MaxRoundQuestions questions
RoundNext ==
  \/ CreateRoom
  \/ StartQuestion
  \/ RoundSubmitQuestion
  \/ StartReview
  \/ RoundVote
  \/ Respond

RoundSpec == Init /\ [][RoundNext]_vars

----------------------------------------------------------------------------
(* Room creation on its own: two candidate codes, the candidates drawn in    *)
(* every order that matters, and durations on both sides of every threshold. *)

CreateCodes == {"ABCDE", "FGHJK"}

\* one draw more than generateRoomCode may consume: a run of one code, then another
CreateDraws ==
  {[i \in 1..(MaxCodeAttempts + 1) |-> IF i <= k THEN a ELSE b] :
     k \in 0..(MaxCodeAttempts + 1), a \in CreateCodes, b \in CreateCodes}

NonFinite(kind) == [kind |-> kind, num |-> 0, den |-> 1]

CreateDurations ==
  {[kind |-> "finite", num |-> n, den |-> d] :
     n \in {-3, 0, 29, 30, 31, 119, 120, 599, 600, 601, 603, 2000}, d \in {1, 2}}
    \cup {NonFinite("NaN"), NonFinite("Infinity"), NonFinite("-Infinity")}

\* every duration with one draw, and every draw under every state of the repository
CreateRequests ==
  (Calm \X {GoodName} \X CreateDurations \X {[i \in 1..(MaxCodeAttempts + 1) |-> "ABCDE"]})
    \cup ({Env("", f, "ok") : f \in Faults} \X NameInputs
            \X {CHOOSE d \in DurationInputs : d.den = 1} \X CreateDraws)

CreateAny ==
  /\ Idle
  /\ \E c \in CreateRequests :
       LET e == c[1]
           res == createRoom(generateRoomCode(store, c[4], 1, e.fault), c[2], c[3], now,
                             nextId, e.fault, e.pusher) IN
       Serve("createRoom", e, IF res.saved # None THEN res.saved[1].code ELSE "", NoId,
             CreateInput(c[2], c[3], c[4]), res, 1)

CreateNext ==
  \/ CreateAny
  \/ Respond

CreateSpec == Init /\ [][CreateNext]_vars

\* the store operation the route of op calls on the table st, with the request that
\* lastOp records
Run(op, st, code, actor, input, fault, pusher, t, n) ==
  LET l == loadRoom(st, code, fault) IN
  CASE op = "createRoom" ->
         createRoom(generateRoomCode(st, input.draws, 1, fault), input.text,
                    input.duration[1], t, n, fault, pusher)
    [] op = "joinRoom" -> joinRoom(l, input.text, t, n, fault, pusher)
    [] op = "getRoom" -> getRoom(l)
    [] op = "startQuestionPhase" -> startQuestionPhase(l, actor, t, fault, pusher)
    [] op = "submitQuestion" -> submitQuestion(l, actor, input.text, t, n, fault, pusher)
    [] op = "startReviewPhase" -> startReviewPhase(l, actor, fault, pusher)
    [] op = "submitVote" -> voteRoute(l, actor, input.target, input.index, fault, pusher)
    [] op = "goToNextQuestion" -> goToNextQuestion(l, actor, fault, pusher)
    [] op = "completeRoom" -> completeRoom(l, actor, fault, pusher)

----------------------------------------------------------------------------
(* Requests during which the clock advances: Date.now() counts milliseconds, *)
(* and an operation that reads it twice may read two different values.        *)

\* what a second reading of the clock returns after a first reading of t
Readings(t) == {t, t + 1}

SlowCreateRoom ==
  /\ Idle
  /\ \E draws \in Draws, c \in Calm \X {GoodName} \X DurationInputs,
        later \in Readings(now) :
       LET e == c[1]
           res == createRoomAt(generateRoomCode(store, draws, 1, e.fault), c[2], c[3],
                               now, later, nextId, e.fault, e.pusher) IN
       ServeAt("createRoom", e, IF res.saved # None THEN res.saved[1].code ELSE "", NoId,
               CreateInput(c[2], c[3], draws), res, 1,
               IF res.saved # None THEN later ELSE now)

SlowSubmitQuestion ==
  /\ Idle
  /\ \E q \in Calm \X Hosts(store) \X {GoodText}, later \in Readings(now) :
       /\ ~QuestionsFull(q[1].code)
       /\ LET e == q[1]
              res == submitQuestionAt(loadRoom(store, e.code, e.fault), q[2], q[3], now,
                                      later, nextId, e.fault, e.pusher) IN
          ServeAt("submitQuestion", e, e.code, q[2], Input(NoId, None, q[3]), res, 1,
                  IF res.saved # None THEN later ELSE now)

SnapshotNext ==
  \/ SlowCreateRoom
  \/ StartQuestion
  \/ SlowSubmitQuestion
  \/ Tick
  \/ Respond

SnapshotSpec == Init /\ [][SnapshotNext]_vars

----------------------------------------------------------------------------
(* A review that runs to its end: once a room is in review nobody joins and   *)
(* the host starts no phase, and every player who has not finished keeps      *)
(* voting on the question they are at.                                        *)

InReview == \E c \in DOMAIN store : store[c].phase = "review"

\* the ids a player can have: a room holds up to MaxPlayers players, and the
\* questions draw ids from the same sequence
Voters == {UUID(i) : i \in 1..(MaxPlayers + MaxQuestions)}

\* the vote of player p on the question they are at, for any member of the room
OwnVoteInputs(st, p) ==
  UNION {Calm \X {p} \X (DOMAIN st[c].players)
              \X {Some(st[c].players[p].currentQuestionIndex)} :
           c \in {d \in DOMAIN st : /\ st[d].phase = "review"
                                      /\ p \in DOMAIN st[d].players
                                      /\ ~st[d].players[p].hasFinishedVoting}}

OwnVote(p) == VoteWith(OwnVoteInputs(store, p))

\* the requests that succeed, sent while no room is in review
HostCreateRoom ==
  CreateRoomWith(Calm \X {GoodName} \X {[kind |-> "finite", num |-> 15, den |-> 1]})
LobbyJoin == ~InReview /\ JoinWith(Calm \X {GoodName})
HostStartQuestion == ~InReview /\ StartQuestionWith(Calm \X Hosts(store))
HostStartReview == ~InReview /\ StartReviewWith(Calm \X Hosts(store))

LiveNext ==
  \/ HostCreateRoom
  \/ LobbyJoin
  \/ HostStartQuestion
  \/ HostSubmitQuestion
  \/ HostStartReview
  \/ \E p \in Voters : OwnVote(p)
  \/ Respond

\* Every handler returns, and a vote a player keeps sending is served: requests
\* are handled one after the other, so the vote can be taken whenever no other
\* request is being handled.
LiveSpec ==
  /\ Init
  /\ [][LiveNext]_vars
  /\ WF_vars(Respond)
  /\ \A p \in Voters : SF_vars(OwnVote(p))

----------------------------------------------------------------------------
(* The client page: the results it computes from the room it received. The   *)
(* votes reach the page in the order of the mapping's keys; the targets      *)
(* counted here are keys of room.players.                                    *)

\* Object.values(question.votes).reduce(...): the count of every target, in the
\* order in which the targets first appear
RECURSIVE CountVotes(_)
CountVotes(votes) ==
  IF votes = <<>> THEN <<>>
  ELSE LET acc == CountVotes(SubSeq(votes, 1, Len(votes) - 1))
           playerId == votes[Len(votes)].target
       IN IF \E i \in DOMAIN acc : acc[i].target = playerId
            THEN [i \in DOMAIN acc |->
                    IF acc[i].target = playerId
                      THEN [acc[i] EXCEPT !.count = @ + 1] ELSE acc[i]]
            ELSE Append(acc, [target |-> playerId, count |-> 1])

\* e put behind the entries of a descending list that count no less than it
InsertByCount(sorted, e) ==
  LET k == Cardinality({i \in DOMAIN sorted : sorted[i].count >= e.count})
  IN SubSeq(sorted, 1, k) \o <<e>> \o SubSeq(sorted, k + 1, Len(sorted))

\* a sort that leaves the entries in the order of the counts mapping
SortKeepsOrder(entries) == entries

\* Array.prototype.sort((a, b) => b - a) on the counts: descending and stable
RECURSIVE SortByCount(_)
SortByCount(entries) ==
  IF entries = <<>> THEN <<>>
  ELSE InsertByCount(SortByCount(SubSeq(entries, 1, Len(entries) - 1)), entries[Len(entries)])

RECURSIVE SumCounts(_)
SumCounts(entries) ==
  IF entries = <<>> THEN 0 ELSE entries[1].count + SumCounts(Tail(entries))

questionSummaries(room) ==
  [q \in DOMAIN room.questions |->
     LET counts == CountVotes(room.questions[q].votes)
         sorted == SortByCount(counts)
         winner == IF sorted = <<>> THEN None ELSE Some(sorted[1])
         winnerPlayer == IF winner # None /\ winner[1].target \in DOMAIN room.players
                           THEN Some(room.players[winner[1].target]) ELSE None
     IN [question |-> room.questions[q],
         totalVotes |-> SumCounts(counts),
         winnerName |-> IF winnerPlayer # None THEN Some(winnerPlayer[1].name) ELSE None]]

\* the result cards of the complete phase
renderStage(room) ==
  [q \in DOMAIN room.questions |->
     LET counts == CountVotes(room.questions[q].votes)
         known == {i \in DOMAIN counts : counts[i].target \in DOMAIN room.players}
         kept == [i \in 1..Cardinality(known) |->
                    counts[CHOOSE j \in known :
                             Cardinality({k \in known : k <= j}) = i]]
         sortedResults == SortByCount(kept)
     IN [totalVotes |-> Len(room.questions[q].votes),
         winner |-> IF sortedResults = <<>> THEN None
                    ELSE Some([player |-> room.players[sortedResults[1].target],
                               voteCount |-> sortedResults[1].count])]]

\* the page shows the room it fetched
Render ==
  /\ Idle
  /\ \E c \in DOMAIN store :
       LET room == sanitizeRoomForClient(store[c]) IN
       page' = Some([room |-> room,
                     summaries |-> questionSummaries(room),
                     results |-> IF room.phase = "complete"
                                   THEN Some(renderStage(room)) ELSE None])
  /\ UNCHANGED <<store, now, nextId, lastOp, response, broadcast, inflight, batch>>

\* the three players of a census and the requests that take their room to review
TallyNames == <<Some(<<"A">>), Some(<<"B">>), Some(<<"C">>)>>
TallyPlayers == {UUID(i) : i \in DOMAIN TallyNames}

Served(req, n) == [w |-> "w1", req |-> req, t |-> 0, n |-> n]

TallySetup ==
  <<Served(Request("createRoom", "", NoId, NoId, 0, TallyNames[1]), 0),
    Served(Request("joinRoom", "ABCDE", NoId, NoId, 0, TallyNames[2]), 1),
    Served(Request("joinRoom", "ABCDE", NoId, NoId, 0, TallyNames[3]), 2),
    Served(Request("startQuestionPhase", "ABCDE", UUID(1), NoId, 0, None), 3),
    Served(Request("submitQuestion", "ABCDE", UUID(1), NoId, 0, GoodText), 3),
    Served(Request("startReviewPhase", "ABCDE", UUID(1), NoId, 0, None), 4)>>

\* up to MaxTallyVotes votes of the players for one another, in every order
TallyVotes ==
  UNION {[1..k -> {Served(Request("submitVote", "ABCDE", p, t, 0, None), 4) :
                     p \in TallyPlayers, t \in TallyPlayers}] : k \in 0..MaxTallyVotes}

TallyEnd == {<<>>, <<Served(Request("completeRoom", "ABCDE", UUID(1), NoId, 0, None), 4)>>}

\* the table after a census of three players: the setup, some votes, and the host
\* ending the review or not
TallyInit ==
  /\ \E votes \in TallyVotes, end \in TallyEnd :
       store = Replay(<<>>, TallySetup \o votes \o end)
  /\ now = 0
  /\ nextId = Len(TallyNames) + 1
  /\ lastOp = NoOp
  /\ response = None
  /\ broadcast = None
  /\ inflight = [w \in Workers |-> None]
  /\ batch = [base |-> <<>>, done |-> <<>>, served |-> 0]
  /\ page = None

TallyNext ==
  \/ Render

TallySpec == TallyInit /\ [][TallyNext]_vars

----------------------------------------------------------------------------
(* Properties *)

HostOps == {"startQuestionPhase", "startReviewPhase", "goToNextQuestion", "completeRoom"}

\* the rooms that leave the server in the last step: the response's and the broadcast's
Sent ==
  {response[i].room[1] : i \in {i \in DOMAIN response : response[i].room # None}}
    \cup {broadcast[i] : i \in DOMAIN broadcast}

\* C1: every change of a room's phase goes one step forward along
\* lobby, question, review, complete: never backward, never over a phase.
C1_PhaseMonotone ==
  [][\A c \in DOMAIN store :
       \/ store'[c].phase = store[c].phase
       \/ PhaseRank(store'[c].phase) = PhaseRank(store[c].phase) + 1]_vars

\* C2: a room whose phase is complete keeps that phase under every operation.
C2_CompleteIsTerminal ==
  [][\A c \in DOMAIN store :
       store[c].phase = "complete" => store'[c].phase = "complete"]_vars

\* C3: a stored room all of whose players have finished voting is complete.
C3_NoStuckIncomplete ==
  \A c \in DOMAIN store :
    (\A p \in DOMAIN store[c].players : store[c].players[p].hasFinishedVoting)
      => store[c].phase = "complete"

\* C4 as claimed: in a stored room that is complete every player has finished voting.
C4_NoPrematureCompletion ==
  \A c \in DOMAIN store :
    store[c].phase = "complete"
      => \A p \in DOMAIN store[c].players : store[c].players[p].hasFinishedVoting

\* C4 as amended: a successful submitVote leaves its room complete only if every
\* player of the room has finished voting.
C4_VoteCompletesWhenAllFinished ==
  (lastOp.op = "submitVote" /\ lastOp.err = "")
    => (store[lastOp.code].phase = "complete"
          => \A p \in DOMAIN store[lastOp.code].players :
               store[lastOp.code].players[p].hasFinishedVoting)

\* a vote has just completed a room of two players
C4_Witness ==
  /\ lastOp.op = "submitVote"
  /\ lastOp.err = ""
  /\ store[lastOp.code].phase = "complete"
  /\ Cardinality(DOMAIN store[lastOp.code].players) = 2

\* C5: a stored room has a questionDeadline exactly when its phase is question.
C5_DeadlineIffQuestion ==
  \A c \in DOMAIN store :
    (store[c].questionDeadline # None) <=> (store[c].phase = "question")

\* C6: a request that fails leaves the table as it was.
C6_NoPartialApplication ==
  [][lastOp'.err # "" => store' = store]_vars

\* a question was refused because the window had closed, in a room that holds one
C6_Witness ==
  /\ lastOp.op = "submitQuestion"
  /\ lastOp.err = "Question window has closed"
  /\ Len(store[lastOp.code].questions) = 1

\* C7: a host-only operation requested by anyone but the room's host fails and
\* leaves the table as it was.
C7_HostOnly ==
  [][(/\ lastOp'.op \in HostOps
      /\ lastOp'.code \in DOMAIN store => lastOp'.actor # store[lastOp'.code].hostId)
       => (lastOp'.err # "" /\ store' = store)]_vars

\* another member of the room has asked for a host-only operation and was refused
C7_Witness ==
  /\ lastOp.op \in HostOps
  /\ lastOp.code \in DOMAIN store
  /\ lastOp.actor \in DOMAIN store[lastOp.code].players
  /\ lastOp.actor # store[lastOp.code].hostId
  /\ lastOp.err = "Only the host can perform this action"

\* C8: the filter returns a complete room as it is; in review it empties the votes
\* of every question and keeps the rest; in lobby and question it empties text,
\* authorId and votes and keeps id and createdAt; it keeps the number and the
\* order of the questions and every other field of the room.
C8_VisibilityFilter ==
  \A c \in DOMAIN store :
    LET r == store[c]
        f == sanitizeRoomForClient(r)
    IN /\ r.phase = "complete" => f = r
       /\ Len(f.questions) = Len(r.questions)
       /\ \A i \in DOMAIN r.questions :
            /\ f.questions[i].id = r.questions[i].id
            /\ f.questions[i].createdAt = r.questions[i].createdAt
            /\ r.phase = "review" =>
                 /\ f.questions[i].text = r.questions[i].text
                 /\ f.questions[i].authorId = r.questions[i].authorId
                 /\ f.questions[i].votes = <<>>
            /\ r.phase \in {"lobby", "question"} =>
                 /\ f.questions[i].text = <<>>
                 /\ f.questions[i].authorId = EmptyId
                 /\ f.questions[i].votes = <<>>
       /\ [f EXCEPT !.questions = r.questions] = r

\* a room in review holds a question that has a text and two votes
C8_Witness ==
  \E c \in DOMAIN store :
    /\ store[c].phase = "review"
    /\ \E i \in DOMAIN store[c].questions :
         /\ store[c].questions[i].text # <<>>
         /\ Len(store[c].questions[i].votes) = 2

\* C9: no room sent in a response or a broadcast shows a question's text or
\* author before review, or a vote before completion.
C9_NothingHiddenIsSent ==
  \A r \in Sent :
    \A i \in DOMAIN r.questions :
      /\ r.phase \in {"lobby", "question"} =>
           (r.questions[i].text = <<>> /\ r.questions[i].authorId = EmptyId)
      /\ r.phase # "complete" => r.questions[i].votes = <<>>

\* C10: when concurrent requests have all been answered, the table is the one
\* that handling them one after the other, in some order, produces.
C10_SerialEquivalent ==
  (Idle /\ batch.done # <<>>)
    => \/ store = Replay(batch.base, batch.done)
       \/ store = Replay(batch.base, Reverse(batch.done))

\* C11: in every stored room room.hostId is a key of room.players, the player under
\* that key has this id, and it is the one player whose isHost is true.
C11_SingleHost ==
  \A c \in DOMAIN store :
    /\ store[c].hostId \in DOMAIN store[c].players
    /\ store[c].players[store[c].hostId].id = store[c].hostId
    /\ \A p \in DOMAIN store[c].players :
         store[c].players[p].isHost <=> (p = store[c].hostId)

\* a second player has just joined a room
C11_Witness ==
  /\ lastOp.op = "joinRoom"
  /\ lastOp.err = ""
  /\ Cardinality(DOMAIN store[lastOp.code].players) = 2

\* C12: under requests handled one after the other a room's list of questions never
\* gets shorter, grows by one question at the end at most, and every question
\* already in it keeps its place, id, text, authorId and createdAt.
C12_AppendOnlyQuestions ==
  [][\A c \in DOMAIN store :
       /\ Len(store'[c].questions) >= Len(store[c].questions)
       /\ Len(store'[c].questions) <= Len(store[c].questions) + 1
       /\ \A i \in DOMAIN store[c].questions :
            /\ store'[c].questions[i].id = store[c].questions[i].id
            /\ store'[c].questions[i].text = store[c].questions[i].text
            /\ store'[c].questions[i].authorId = store[c].questions[i].authorId
            /\ store'[c].questions[i].createdAt = store[c].questions[i].createdAt]_vars

\* a second question has just been appended to a room
C12_Witness ==
  /\ lastOp.op = "submitQuestion"
  /\ lastOp.err = ""
  /\ Len(store[lastOp.code].questions) = 2

\* C13: in every stored room the voter and the target of every vote, and the author
\* of every question, are keys of room.players.
C13_ReferentialIntegrity ==
  \A c \in DOMAIN store :
    \A i \in DOMAIN store[c].questions :
      /\ store[c].questions[i].authorId \in DOMAIN store[c].players
      /\ \A j \in DOMAIN store[c].questions[i].votes :
           /\ store[c].questions[i].votes[j].voter \in DOMAIN store[c].players
           /\ store[c].questions[i].votes[j].target \in DOMAIN store[c].players

\* C14: a player who has finished voting stays in the room and stays finished under
\* every request except a successful startReviewPhase on the player's room.
C14_FinishedStaysFinished ==
  [][\A c \in DOMAIN store :
       \A p \in DOMAIN store[c].players :
         (/\ store[c].players[p].hasFinishedVoting
          /\ ~(lastOp'.op = "startReviewPhase" /\ lastOp'.err = "" /\ lastOp'.code = c))
           => (/\ p \in DOMAIN store'[c].players
               /\ store'[c].players[p].hasFinishedVoting)]_vars

\* a player who had finished has voted again on the first of two questions and is
\* still finished, while the room is in review
C14_Witness ==
  /\ lastOp.op = "submitVote"
  /\ lastOp.err = ""
  /\ lastOp.input.index = Some(0)
  /\ Len(store[lastOp.code].questions) = 2
  /\ store[lastOp.code].phase = "review"
  /\ store[lastOp.code].players[lastOp.actor].hasFinishedVoting

\* C15: in every stored room a player who has finished voting has a vote in every
\* question of the room.
C15_FinishedMeansVotedOnAll ==
  \A c \in DOMAIN store :
    \A p \in DOMAIN store[c].players :
      store[c].players[p].hasFinishedVoting
        => \A i \in DOMAIN store[c].questions :
             \E j \in DOMAIN store[c].questions[i].votes :
               store[c].questions[i].votes[j].voter = p

\* C16: submitQuestion succeeds only if the player is a key of room.players, the
\* phase is question, the clock is not past questionDeadline and the text is not
\* blank; out of the question phase or past the deadline it fails and appends
\* nothing; when it succeeds it appends one question with the trimmed text, the
\* player as author and no votes.
C16_SubmitQuestionGuards ==
  [][lastOp'.op = "submitQuestion" =>
       IF lastOp'.code \notin DOMAIN store THEN lastOp'.err # ""
       ELSE LET room == store[lastOp'.code]
                after == store'[lastOp'.code]
                closed == room.questionDeadline # None /\ now > room.questionDeadline[1]
            IN /\ lastOp'.err = "" =>
                    /\ lastOp'.actor \in DOMAIN room.players
                    /\ room.phase = "question"
                    /\ ~closed
                    /\ ~IsBlank(lastOp'.input.text)
               /\ (room.phase # "question" \/ closed) =>
                    (lastOp'.err # "" /\ after.questions = room.questions)
               /\ lastOp'.err = "" =>
                    /\ Len(after.questions) = Len(room.questions) + 1
                    /\ SubSeq(after.questions, 1, Len(room.questions)) = room.questions
                    /\ after.questions[Len(after.questions)].text = Trim(lastOp'.input.text[1])
                    /\ after.questions[Len(after.questions)].authorId = lastOp'.actor
                    /\ after.questions[Len(after.questions)].votes = <<>>]_vars

\* C17: a successful submitVote of a player on the last question leaves that player
\* finished; the room it stores is complete with questionDeadline cleared if every
\* player of the room has then finished, and otherwise still in review with its
\* questionDeadline as before.
C17_VoteCompletionStep ==
  [][(/\ lastOp'.op = "submitVote"
      /\ lastOp'.err = ""
      /\ lastOp'.actor \in DOMAIN store[lastOp'.code].players)
       => LET room == store[lastOp'.code]
              after == store'[lastOp'.code]
              all == \A p \in DOMAIN after.players : after.players[p].hasFinishedVoting
          IN /\ lastOp'.input.index = Some(Len(room.questions) - 1)
                  => after.players[lastOp'.actor].hasFinishedVoting
             /\ all => (after.phase = "complete" /\ after.questionDeadline = None)
             /\ ~all => (after.phase = "review"
                           /\ after.questionDeadline = room.questionDeadline)]_vars

\* in a room of two players and one question the second vote has completed the room
C17_Witness ==
  /\ lastOp.op = "submitVote"
  /\ lastOp.err = ""
  /\ lastOp.input.index = Some(0)
  /\ Cardinality(DOMAIN store[lastOp.code].players) = 2
  /\ Len(store[lastOp.code].questions) = 1
  /\ Len(store[lastOp.code].questions[1].votes) = 2
  /\ store[lastOp.code].phase = "complete"
  /\ store[lastOp.code].questionDeadline = None

\* C18: a vote request fails and leaves the table as it was whenever its
\* questionIndex is missing, negative or not below the number of questions,
\* whenever its playerId or its targetPlayerId is no key of room.players, and
\* whenever the room is not in review.
C18_VoteValidation ==
  [][(/\ lastOp'.op = "submitVote"
      /\ lastOp'.code \in DOMAIN store
      /\ LET room == store[lastOp'.code]
              index == lastOp'.input.index
          IN \/ index = None
             \/ index[1] < 0
             \/ index[1] >= Len(room.questions)
             \/ lastOp'.actor \notin DOMAIN room.players
             \/ lastOp'.input.target \notin DOMAIN room.players
             \/ room.phase # "review")
       => (lastOp'.err # "" /\ store' = store)]_vars

\* the errors of the repository
StorageErrors == {"Could not load room", "Could not persist room state"}

\* C19: startReviewPhase requested by the host of a room without questions fails and
\* leaves the table as it was; on a room with questions it fails only when the
\* repository fails, and otherwise stores the room in review with every player at
\* currentQuestionIndex 0 and not finished.
C19_StartReviewResets ==
  [][(/\ lastOp'.op = "startReviewPhase"
      /\ lastOp'.code \in DOMAIN store
      /\ lastOp'.actor = store[lastOp'.code].hostId)
       => LET room == store[lastOp'.code]
              after == store'[lastOp'.code]
          IN IF Len(room.questions) = 0
               THEN lastOp'.err # "" /\ store' = store
               ELSE /\ lastOp'.err \in {""} \cup StorageErrors
                    /\ lastOp'.err = "" =>
                         /\ after.phase = "review"
                         /\ DOMAIN after.players = DOMAIN room.players
                         /\ \A p \in DOMAIN after.players :
                              /\ after.players[p].currentQuestionIndex = 0
                              /\ ~after.players[p].hasFinishedVoting]_vars

\* review has just been started again in a room of two players whose last question
\* already has a vote
C19_Witness ==
  /\ lastOp.op = "startReviewPhase"
  /\ lastOp.err = ""
  /\ Cardinality(DOMAIN store[lastOp.code].players) = 2
  /\ store[lastOp.code].questions[Len(store[lastOp.code].questions)].votes # <<>>

\* the last step handled op, requested by the host of a stored room
ByHost(op) ==
  /\ lastOp'.op = op
  /\ lastOp'.code \in DOMAIN store
  /\ lastOp'.actor = store[lastOp'.code].hostId

\* the last step failed in the repository or stored its room complete, with
\* questionDeadline cleared and nothing else changed, and answered with that room;
\* a room that was complete already is stored and returned as it was
Completes ==
  LET room == store[lastOp'.code]
      after == store'[lastOp'.code]
  IN /\ lastOp'.err \in {""} \cup StorageErrors
     /\ lastOp'.err = "" =>
          /\ after = [room EXCEPT !.phase = "complete", !.questionDeadline = None]
          /\ response' = Some(Ok(after, NoId))
          /\ room.phase = "complete" => after = room

\* C20 as claimed: completeRoom and goToNextQuestion requested by the host succeed in
\* every phase, store the room complete with questionDeadline cleared, and on a
\* complete room return the room as it was.
C20_BothCompleteInEveryPhase ==
  [][(ByHost("completeRoom") \/ ByHost("goToNextQuestion")) => Completes]_vars

\* C20 as amended: completeRoom requested by the host does so in every phase;
\* goToNextQuestion requested by the host does so in review only, and in every
\* other phase it fails and leaves the table as it was.
C20_CompleteInEveryPhaseNextInReview ==
  [][/\ ByHost("completeRoom") => Completes
     /\ ByHost("goToNextQuestion") =>
          IF store[lastOp'.code].phase = "review" THEN Completes
          ELSE lastOp'.err # "" /\ store' = store]_vars

\* the host of a complete room has asked for goToNextQuestion and was refused
C20_Witness ==
  /\ lastOp.op = "goToNextQuestion"
  /\ lastOp.code \in DOMAIN store
  /\ lastOp.actor = store[lastOp.code].hostId
  /\ store[lastOp.code].phase = "complete"
  /\ lastOp.err = "Review phase has not started"

\* C21: the room a createRoom stores has an integer questionDurationSeconds from 15
\* to 300: the floor of the requested number brought into that range when the
\* number is finite, and 60 when it is not; and no createRoom with a host name, a
\* working repository and a free code fails, whatever the duration.
C21_DurationClamped ==
  [][lastOp'.op = "createRoom" =>
       LET d == lastOp'.input.duration[1]
           floor == CHOOSE k \in -2000..2000 : k * d.den <= d.num /\ d.num < (k + 1) * d.den
       IN /\ lastOp'.err = "" =>
               LET q == store'[lastOp'.code].questionDurationSeconds
               IN /\ q \in 15..300
                  /\ d.kind # "finite" => q = 60
                  /\ (d.kind = "finite" /\ floor < 15) => q = 15
                  /\ (d.kind = "finite" /\ floor > 300) => q = 300
                  /\ (d.kind = "finite" /\ floor \in 15..300) => q = floor
          /\ (/\ ~IsBlank(lastOp'.input.text)
              /\ lastOp'.fault = "none"
              /\ \E i \in 1..10 : lastOp'.input.draws[i] \notin DOMAIN store)
               => lastOp'.err = ""]_vars

\* a room was created for the duration 599/2 and holds 299 seconds
C21_Witness ==
  /\ lastOp.op = "createRoom"
  /\ lastOp.err = ""
  /\ lastOp.input.duration = Some([kind |-> "finite", num |-> 599, den |-> 2])
  /\ store[lastOp.code].questionDurationSeconds = 299

\* C22: a createRoom without a host name fails; the room a createRoom stores is in
\* the lobby, without questions and deadline, with one player who is host, at
\* currentQuestionIndex 0 and not finished. A joinRoom without a name fails; a
\* successful joinRoom, in every phase, adds one player under an id that was not in
\* the room, not host, at currentQuestionIndex 0 and not finished, returns that id,
\* and changes nothing else of the room. A request that fails stores nothing.
C22_CreateAndJoinEffect ==
  [][/\ lastOp'.op \in {"createRoom", "joinRoom"} =>
          /\ IsBlank(lastOp'.input.text) => lastOp'.err # ""
          /\ lastOp'.err # "" => store' = store
     /\ (lastOp'.op = "createRoom" /\ lastOp'.err = "") =>
          LET room == store'[lastOp'.code]
          IN /\ lastOp'.code \notin DOMAIN store
             /\ room.phase = "lobby"
             /\ room.questions = <<>>
             /\ room.questionDeadline = None
             /\ DOMAIN room.players = {room.hostId}
             /\ room.players[room.hostId].isHost
             /\ room.players[room.hostId].currentQuestionIndex = 0
             /\ ~room.players[room.hostId].hasFinishedVoting
     /\ (lastOp'.op = "joinRoom" /\ lastOp'.err = "") =>
          LET room == store[lastOp'.code]
              after == store'[lastOp'.code]
              new == DOMAIN after.players \ DOMAIN room.players
          IN /\ Cardinality(new) = 1
             /\ \A p \in new :
                  /\ after.players[p].id = p
                  /\ ~after.players[p].isHost
                  /\ after.players[p].currentQuestionIndex = 0
                  /\ ~after.players[p].hasFinishedVoting
                  /\ response'[1].playerId = p
             /\ \A p \in DOMAIN room.players : after.players[p] = room.players[p]
             /\ after.questions = room.questions
             /\ after.phase = room.phase
             /\ [after EXCEPT !.players = room.players] = room]_vars

\* a player has just joined a room that is complete
C22_Witness ==
  /\ lastOp.op = "joinRoom"
  /\ lastOp.err = ""
  /\ store[lastOp.code].phase = "complete"
  /\ Cardinality(DOMAIN store[lastOp.code].players) = 2

\* C23: a createRoom, handled alone or finishing while other requests are in
\* flight, never changes a room that is already stored: it stores its room under a
\* code that was free.
C23_CreateNeverOverwrites ==
  [][(\/ lastOp'.op = "createRoom"
      \/ \E w \in Workers :
           /\ inflight[w] # None
           /\ inflight'[w] = None
           /\ inflight[w][1].req.op = "createRoom")
       => \A c \in DOMAIN store : store'[c] = store[c]]_vars

\* C24: a request handled while the broadcaster is not configured or its trigger
\* fails ends as it would with a working broadcaster: the same success or error,
\* the same room stored, the same response; only nothing is published.
C24_BroadcastFailureIsolated ==
  [][(lastOp'.op # "none" /\ lastOp'.pusher # "ok")
       => LET r == Run(lastOp'.op, store, lastOp'.code, lastOp'.actor, lastOp'.input,
                       lastOp'.fault, "ok", now, nextId)
          IN /\ lastOp'.err = r.err
             /\ store' = IF r.saved # None THEN Upsert(store, r.saved[1]) ELSE store
             /\ response' = RouteBody(lastOp'.op, r, nextId)
             /\ broadcast' = None]_vars

\* a player has joined while the trigger failed: the room is stored and returned,
\* nothing was published
C24_Witness ==
  /\ lastOp.op = "joinRoom"
  /\ lastOp.pusher = "fails"
  /\ lastOp.err = ""
  /\ Cardinality(DOMAIN store[lastOp.code].players) = 2
  /\ response # None
  /\ response[1].room = Some(sanitizeRoomForClient(store[lastOp.code]))
  /\ broadcast = None

\* the request recorded in the next lastOp is refused before any load: a create or
\* join without a name, a vote without a questionIndex
RefusedBeforeLoad ==
  \/ lastOp'.op \in {"createRoom", "joinRoom"} /\ IsBlank(lastOp'.input.text)
  \/ lastOp'.op = "submitVote" /\ lastOp'.input.index = None

\* C25: a request whose load fails ends with the error of the repository and stores
\* nothing; "Room not found" is the answer exactly when the load succeeds and finds
\* no room under the code; a request whose save fails ends with an error and stores
\* nothing.
C25_StorageFailuresSurface ==
  [][(lastOp'.op # "none" /\ ~RefusedBeforeLoad) =>
       /\ lastOp'.fault = "load" =>
            (lastOp'.err = "Could not load room" /\ store' = store)
       /\ lastOp'.err = "Room not found" =>
            (lastOp'.fault # "load" /\ lastOp'.code \notin DOMAIN store)
       /\ (/\ lastOp'.op # "createRoom"
           /\ lastOp'.fault # "load"
           /\ lastOp'.code \notin DOMAIN store) => lastOp'.err = "Room not found"
       /\ (lastOp'.fault = "save" /\ lastOp'.op # "getRoom") =>
            (lastOp'.err # "" /\ store' = store)]_vars

\* a vote on a stored room in review has failed because the load failed
C25_Witness ==
  /\ lastOp.op = "submitVote"
  /\ lastOp.fault = "load"
  /\ lastOp.code \in DOMAIN store
  /\ store[lastOp.code].phase = "review"
  /\ lastOp.err = "Could not load room"

\* C26: under requests handled one after the other a stored room stays stored under
\* its code, which is in upper case, and keeps its hostId, questionDurationSeconds
\* and createdAt; every player stays in the room and keeps id, name, joinedAt and
\* isHost.
C26_CreationFieldsImmutable ==
  [][\A c \in DOMAIN store :
       /\ c \in DOMAIN store'
       /\ store[c].code = c
       /\ ToUpperCase(store[c].code) = store[c].code
       /\ store'[c].code = store[c].code
       /\ store'[c].hostId = store[c].hostId
       /\ store'[c].questionDurationSeconds = store[c].questionDurationSeconds
       /\ store'[c].createdAt = store[c].createdAt
       /\ \A p \in DOMAIN store[c].players :
            /\ p \in DOMAIN store'[c].players
            /\ store'[c].players[p].id = store[c].players[p].id
            /\ store'[c].players[p].name = store[c].players[p].name
            /\ store'[c].players[p].joinedAt = store[c].players[p].joinedAt
            /\ store'[c].players[p].isHost = store[c].players[p].isHost]_vars

\* the question phase has been started, at a later time, in a room that a second
\* player joined after its creation
C26_Witness ==
  /\ lastOp.op = "startQuestionPhase"
  /\ lastOp.err = ""
  /\ \E p \in DOMAIN store[lastOp.code].players :
       /\ store[lastOp.code].players[p].joinedAt > store[lastOp.code].createdAt
       /\ now > store[lastOp.code].players[p].joinedAt

\* C27: a question never holds two votes of one voter; under every request the
\* votes of every question keep their voters, in their places; the target of a
\* vote changes only by a successful submitVote of its voter on that question, to
\* the target of that request; and after a successful submitVote the question
\* holds the voter's vote for that target.
C27_VoteExclusivity ==
  [][\A c \in DOMAIN store :
       \A i \in DOMAIN store[c].questions :
         LET votes == store[c].questions[i].votes
             after == store'[c].questions[i].votes
             voted == /\ lastOp'.op = "submitVote"
                      /\ lastOp'.err = ""
                      /\ lastOp'.code = c
                      /\ lastOp'.input.index = Some(i - 1)
         IN /\ \A j, k \in DOMAIN after : after[j].voter = after[k].voter => j = k
            /\ Len(after) >= Len(votes)
            /\ \A j \in DOMAIN votes :
                 /\ after[j].voter = votes[j].voter
                 /\ after[j].target # votes[j].target =>
                      /\ voted
                      /\ lastOp'.actor = votes[j].voter
                      /\ after[j].target = lastOp'.input.target
            /\ voted => \E j \in DOMAIN after :
                          after[j] = [voter |-> lastOp'.actor, target |-> lastOp'.input.target]
            /\ ~voted => after = votes]_vars

\* a player whose vote on a question is older than the other player's has voted on
\* it again, for the other player
C27_Witness ==
  /\ lastOp.op = "submitVote"
  /\ lastOp.err = ""
  /\ lastOp.input.target # lastOp.actor
  /\ LET votes == store[lastOp.code].questions[lastOp.input.index[1] + 1].votes
     IN /\ Len(votes) = 2
        /\ votes[1] = [voter |-> lastOp.actor, target |-> lastOp.input.target]

\* C28: a successful submitVote of player p on question i changes nothing of the
\* room but the votes of question i, p's currentQuestionIndex and
\* hasFinishedVoting, the phase and the questionDeadline; in the votes of question
\* i every other voter's entry stays as it was and at most p's entry is new.
C28_VoteFrame ==
  [][(/\ lastOp'.op = "submitVote"
      /\ lastOp'.err = ""
      /\ lastOp'.actor \in DOMAIN store[lastOp'.code].players)
       => LET room == store[lastOp'.code]
              after == store'[lastOp'.code]
              p == lastOp'.actor
              i == lastOp'.input.index[1] + 1
              votes == room.questions[i].votes
          IN /\ [after EXCEPT
                   !.phase = room.phase,
                   !.questionDeadline = room.questionDeadline,
                   !.players[p].currentQuestionIndex = room.players[p].currentQuestionIndex,
                   !.players[p].hasFinishedVoting = room.players[p].hasFinishedVoting,
                   !.questions[i].votes = votes] = room
             /\ Len(after.questions[i].votes) \in {Len(votes), Len(votes) + 1}
             /\ \A j \in DOMAIN after.questions[i].votes :
                  IF j \in DOMAIN votes /\ votes[j].voter # p
                    THEN after.questions[i].votes[j] = votes[j]
                    ELSE after.questions[i].votes[j].voter = p]_vars

\* a player has voted on the first of two questions while the other player had
\* already finished, and the room is still in review
C28_Witness ==
  /\ lastOp.op = "submitVote"
  /\ lastOp.err = ""
  /\ lastOp.input.index = Some(0)
  /\ store[lastOp.code].phase = "review"
  /\ Len(store[lastOp.code].questions) = 2
  /\ ~store[lastOp.code].players[lastOp.actor].hasFinishedVoting
  /\ \E q \in DOMAIN store[lastOp.code].players :
       q # lastOp.actor /\ store[lastOp.code].players[q].hasFinishedVoting

\* C29: a player's currentQuestionIndex never decreases under a request other than
\* a successful startReviewPhase, and a player who is unfinished in a room in
\* review has a vote in every question below the player's currentQuestionIndex.
C29_IndexIsNextQuestion ==
  [][\A c \in DOMAIN store :
       \A p \in DOMAIN store[c].players :
         /\ ~(lastOp'.op = "startReviewPhase" /\ lastOp'.err = "" /\ lastOp'.code = c)
              => store'[c].players[p].currentQuestionIndex
                   >= store[c].players[p].currentQuestionIndex
         /\ (store'[c].phase = "review" /\ ~store'[c].players[p].hasFinishedVoting)
              => \A i \in 1..store'[c].players[p].currentQuestionIndex :
                   \E j \in DOMAIN store'[c].questions[i].votes :
                     store'[c].questions[i].votes[j].voter = p]_vars

\* C30: a createRoom with a host name looks at no more than the first 10 candidate
\* codes. When the load fails it fails with the error of the repository; when a
\* room is stored under each of the 10 it fails with the allocation error; and
\* otherwise it takes the first candidate under which no room is stored, stores its
\* room under it and leaves every stored room as it was. A createRoom that fails
\* stores nothing.
C30_CodeAllocationBounded ==
  [][(lastOp'.op = "createRoom" /\ ~IsBlank(lastOp'.input.text))
       => LET draws == lastOp'.input.draws
              free == {i \in 1..10 : draws[i] \notin DOMAIN store}
              first == CHOOSE i \in free : \A j \in free : i <= j
          IN /\ lastOp'.err # "" => store' = store
             /\ lastOp'.fault = "load" => lastOp'.err = "Could not load room"
             /\ (lastOp'.fault # "load" /\ free = {})
                  => lastOp'.err = "Unable to generate a unique room code"
             /\ (lastOp'.fault # "load" /\ free # {})
                  => /\ lastOp'.err \in {"", "Could not persist room state"}
                     /\ lastOp'.err = "" =>
                          /\ lastOp'.code = draws[first]
                          /\ DOMAIN store' = DOMAIN store \cup {draws[first]}
                          /\ store'[draws[first]].code = draws[first]
                          /\ \A c \in DOMAIN store : store'[c] = store[c]]_vars

\* a room was created under the tenth candidate, the nine before it being taken
C30_Witness ==
  /\ lastOp.op = "createRoom"
  /\ lastOp.err = ""
  /\ lastOp.input.draws[10] = lastOp.code
  /\ \A i \in 1..9 :
       lastOp.input.draws[i] # lastOp.code /\ lastOp.input.draws[i] \in DOMAIN store

\* how many of the votes name the target, and the place of the first that does
VotesFor(votes, t) == Cardinality({i \in DOMAIN votes : votes[i].target = t})
FirstVoteFor(votes, t) ==
  CHOOSE i \in DOMAIN votes :
    votes[i].target = t /\ \A j \in 1..(i - 1) : votes[j].target # t

\* the target the page must show for the votes: a most voted one, and of those
\* the one named first in the votes mapping
TopTarget(votes, w) ==
  /\ \E i \in DOMAIN votes : votes[i].target = w
  /\ \A i \in DOMAIN votes :
       LET t == votes[i].target IN
       /\ VotesFor(votes, w) >= VotesFor(votes, t)
       /\ VotesFor(votes, t) = VotesFor(votes, w)
            => FirstVoteFor(votes, w) <= FirstVoteFor(votes, t)

\* C31: for every question of the room the page shows, the winner is a target
\* with a count no smaller than any other target's, the first of them in the
\* votes mapping when several share the top count; a question without votes has
\* no winner; totalVotes is the number of voters of the question. This holds of
\* the question summaries and of the result cards of the complete phase.
C31_WinnerIsFirstTopTarget ==
  page # None =>
    LET room == page[1].room IN
    \A q \in DOMAIN room.questions :
      LET votes == room.questions[q].votes
          voters == {votes[i].voter : i \in DOMAIN votes}
          summary == page[1].summaries[q]
      IN /\ summary.totalVotes = Cardinality(voters)
         /\ votes = <<>> => summary.winnerName = None
         /\ votes # <<>> =>
              \E w \in DOMAIN room.players :
                /\ TopTarget(votes, w)
                /\ summary.winnerName = Some(room.players[w].name)
         /\ page[1].results # None =>
              LET card == page[1].results[1][q] IN
              /\ card.totalVotes = Cardinality(voters)
              /\ votes = <<>> => card.winner = None
              /\ votes # <<>> =>
                   \E w \in DOMAIN room.players :
                     /\ TopTarget(votes, w)
                     /\ card.winner = Some([player |-> room.players[w],
                                             voteCount |-> VotesFor(votes, w)])

\* the page shows a finished census whose winner was not named by the first vote
C31_Witness ==
  /\ page # None
  /\ page[1].results # None
  /\ \E q \in DOMAIN page[1].room.questions :
       LET votes == page[1].room.questions[q].votes IN
       /\ Len(votes) = 3
       /\ page[1].summaries[q].winnerName # None
       /\ page[1].summaries[q].winnerName
            # Some(page[1].room.players[votes[1].target].name)
       /\ page[1].results[1][q].winner # None
       /\ page[1].results[1][q].winner[1].voteCount = 2

\* the question an accepted submitQuestion appended carries a createdAt that is
\* not after the room's questionDeadline
C32_QuestionWithinDeadline ==
  (lastOp = NoOp /\ lastOp'.op = "submitQuestion" /\ lastOp'.err = "") =>
    LET room == store'[lastOp'.code] IN
    room.questionDeadline # None =>
      room.questions[Len(room.questions)].createdAt <= room.questionDeadline[1]

\* the host of a room createRoom saved joined at the room's createdAt
C32_HostJoinedAtCreation ==
  (lastOp = NoOp /\ lastOp'.op = "createRoom" /\ lastOp'.err = "") =>
    LET room == store'[lastOp'.code] IN
    room.players[room.hostId].joinedAt = room.createdAt

\* C32: every timestamp an operation compares or writes comes from one clock
\* reading: an accepted submitQuestion stamps the question with the instant that
\* passed the deadline check (so createdAt <= questionDeadline), and createRoom
\* gives the host's joinedAt and the room's createdAt the same value, even if the
\* clock advances while the operation runs.
C32_SingleSnapshot ==
  [][C32_QuestionWithinDeadline /\ C32_HostJoinedAtCreation]_vars

\* the votes a player still has to cast in the round
Remaining(room, p) ==
  IF room.players[p].hasFinishedVoting THEN 0
  ELSE Len(room.questions) - room.players[p].currentQuestionIndex

\* an accepted vote of a player on their own question takes one off the votes they
\* have to cast, which were no more than the questions of the room
OwnVoteProgress ==
  \A p \in Voters :
    (OwnVote(p) /\ lastOp'.err = "") =>
      LET room == store[lastOp'.code]
          after == store'[lastOp'.code]
      IN /\ Remaining(room, p) \in 1..Len(room.questions)
         /\ Remaining(after, p) = Remaining(room, p) - 1
         /\ \A o \in DOMAIN room.players \ {p} : Remaining(after, o) = Remaining(room, o)

C34_PlayerIndexInRange ==
  \A c \in DOMAIN store :
    LET room == store[c]
        last == IF Len(room.questions) = 0 THEN 0 ELSE Len(room.questions) - 1
    IN \A p \in DOMAIN room.players :
         /\ room.players[p].currentQuestionIndex \in 0..last
         /\ room.phase = "review" =>
              /\ room.questions # <<>>
              /\ room.players[p].currentQuestionIndex + 1 \in DOMAIN room.questions

\* in a review of two questions a vote took a player to the last question, and
\* another player has finished and stays there
C34_Witness ==
  /\ lastOp.op = "submitVote"
  /\ lastOp.err = ""
  /\ lastOp.code \in DOMAIN store
  /\ LET room == store[lastOp.code] IN
     /\ room.phase = "review"
     /\ Len(room.questions) = 2
     /\ lastOp.actor \in DOMAIN room.players
     /\ room.players[lastOp.actor].currentQuestionIndex = 1
     /\ ~room.players[lastOp.actor].hasFinishedVoting
     /\ \E o \in DOMAIN room.players :
          /\ room.players[o].hasFinishedVoting
          /\ room.players[o].currentQuestionIndex = 1

\* C35: a request publishes at most one broadcast, and only when it is an operation
\* that changes the room and its save succeeded; the payload is
\* sanitizeRoomForClient of the state that save returned, which is the room now
\* stored; a request that ends with an error (refused, or its save failed) publishes
\* nothing. With a working broadcaster every successful change is published.
C35_SaveThenBroadcast ==
  [][(lastOp = NoOp /\ lastOp'.op # "none") =>
       /\ Len(broadcast') <= 1
       /\ broadcast' # None =>
            /\ lastOp'.op # "getRoom"
            /\ lastOp'.err = ""
            /\ lastOp'.code \in DOMAIN store'
            /\ broadcast' = Some(sanitizeRoomForClient(store'[lastOp'.code]))
       /\ lastOp'.err # "" => (broadcast' = None /\ store' = store)
       /\ (lastOp'.err = "" /\ lastOp'.op # "getRoom" /\ lastOp'.pusher = "ok")
            => broadcast' # None]_vars

\* a vote was saved during review and published without the votes the store holds
C35_Witness ==
  /\ lastOp.op = "submitVote"
  /\ lastOp.err = ""
  /\ store[lastOp.code].phase = "review"
  /\ broadcast = Some(sanitizeRoomForClient(store[lastOp.code]))
  /\ broadcast[1] # store[lastOp.code]

====
